---- MODULE Spec2Model ----
(***************************************************************************)
(* A model of the webfinger crate: the serve-side resolver                 *)
(* (src/src/resolver.rs and the older trait kept in src/src/lib.rs), the   *)
(* fetch side (src/src/fetch.rs, url_for_acct of src/src/lib.rs) and the   *)
(* serde shapes of Webfinger and Link (src/src/lib.rs).                    *)
(*                                                                         *)
(* Text is a sequence of one-character strings, so that splitting,         *)
(* lower-casing and byte-for-byte comparison are computed as the code      *)
(* computes them.  The crate keeps no state between calls: a behaviour is  *)
(* one call, from its arguments to its result, with the calls it makes to  *)
(* the caller's find and to the HTTP client recorded on the way.           *)
(***************************************************************************)
EXTENDS Naturals, Sequences, FiniteSets

\* The longest input text, counted in pieces of Pieces.
MaxPieces == 5

--------------------------------------------------------------------------
\* Option and Result

None == [tag |-> "None"]
Some(x) == [tag |-> "Some", val |-> x]
Ok(x) == [tag |-> "Ok", val |-> x]
Err(e) == [tag |-> "Err", err |-> e]
IsOk(r) == r.tag = "Ok"
IsErr(r) == r.tag = "Err"

--------------------------------------------------------------------------
\* Text

S_acct == <<"a", "c", "c", "t">>
S_group == <<"g", "r", "o", "u", "p">>
S_http == <<"h", "t", "t", "p">>
S_https == <<"h", "t", "t", "p", "s">>
S_scheme_sep == <<":", "/", "/">>
S_well_known ==
    <<"/", ".", "w", "e", "l", "l", "-", "k", "n", "o", "w", "n", "/",
      "w", "e", "b", "f", "i", "n", "g", "e", "r", "?",
      "r", "e", "s", "o", "u", "r", "c", "e", "=">>
S_accept ==
    <<"a", "p", "p", "l", "i", "c", "a", "t", "i", "o", "n", "/",
      "j", "r", "d", "+", "j", "s", "o", "n", ",", " ",
      "a", "p", "p", "l", "i", "c", "a", "t", "i", "o", "n", "/",
      "j", "s", "o", "n">>

\* The pieces input texts are made of: the two known prefixes (one of them
\* in mixed case), an upper-case custom prefix, both separators and a name.
Pieces ==
    { S_acct, <<"G", "r", "o", "u", "p">>, <<"X">>, <<":">>, <<"@">>, <<"d">> }

RECURSIVE Flatten(_)
Flatten(ps) == IF ps = <<>> THEN <<>> ELSE Head(ps) \o Flatten(Tail(ps))

\* Every text of at most MaxPieces pieces.
Texts == { Flatten(ps) : ps \in UNION { [1..n -> Pieces] : n \in 0..MaxPieces } }

\* char::to_lowercase on the characters the inputs are made of
LowerChar(c) ==
    CASE c = "A" -> "a"
      [] c = "G" -> "g"
      [] c = "X" -> "x"
      [] c = "D" -> "d"
      [] OTHER -> c

\* str::to_lowercase
to_lowercase(s) == [i \in 1..Len(s) |-> LowerChar(s[i])]

\* str::contains(char)
contains(s, c) == \E i \in 1..Len(s) : s[i] = c

\* str::find(char): the first index of c in s, 0 when there is none
find_char(s, c) ==
    IF contains(s, c)
    THEN CHOOSE i \in 1..Len(s) : s[i] = c /\ \A j \in 1..(i - 1) : s[j] # c
    ELSE 0

\* str::splitn(2, c), as the sequence of the items the iterator yields
splitn2(s, c) ==
    LET i == find_char(s, c)
    IN  IF i = 0
        THEN <<s>>
        ELSE <<SubSeq(s, 1, i - 1), SubSeq(s, i + 1, Len(s))>>

\* str::split(c), as the sequence of the items the iterator yields
RECURSIVE split(_, _)
split(s, c) ==
    LET i == find_char(s, c)
    IN  IF i = 0
        THEN <<s>>
        ELSE <<SubSeq(s, 1, i - 1)>> \o split(SubSeq(s, i + 1, Len(s)), c)

\* Iterator::nth(n) (n counted from 0) on the items of an iterator
nth(items, n) == IF n + 1 <= Len(items) THEN Some(items[n + 1]) ELSE None

\* Option::ok_or
ok_or(o, e) == IF o.tag = "Some" THEN Ok(o.val) ELSE Err(e)

--------------------------------------------------------------------------
\* Prefix

Acct == [kind |-> "Acct"]
Group == [kind |-> "Group"]
Custom(s) == [kind |-> "Custom", text |-> s]

\* Prefix::from that forgets to lower-case the token.
Prefix_from_cased(s) ==
    IF s = S_acct THEN Acct
    ELSE IF s = S_group THEN Group
    ELSE Custom(s)

\* impl From<&str> for Prefix: the lower-cased token is matched against
\* "acct" and "group"; anything else is Custom of the lower-cased token.
Prefix_from(s) ==
    LET x == to_lowercase(s)
    IN  IF x = S_acct THEN Acct
        ELSE IF x = S_group THEN Group
        ELSE Custom(x)

\* impl Into<String> for Prefix: the text form of a prefix.
Prefix_into(p) ==
    IF p = Acct THEN S_acct
    ELSE IF p = Group THEN S_group
    ELSE p.text

--------------------------------------------------------------------------
\* Errors

InvalidResource == "InvalidResource"
WrongDomain == "WrongDomain"
WrongInstance == "WrongInstance"
NotFound == "NotFound"
HttpError == "HttpError"
ParseError == "ParseError"
JsonError == "JsonError"

\* enum ResolverError, as resolver.rs uses it
ResolverError == {InvalidResource, WrongDomain, NotFound}

--------------------------------------------------------------------------
\* The resolvers a host application supplies

S_rel == <<"r", "e", "l">>
S_profile_page == <<"p", "a", "g", "e">>
S_instance_url == <<"h", "t", "t", "p", "s", ":", "/", "/", "i", "/", "@">>

\* The instance domains a resolver may be configured with: a plain name,
\* the same name in upper case, and names that hold a separator.
Domains == { <<"d">>, <<"D">>, <<"d", "@", "d">>, <<"d", ":", "d">> }

\* The relation filters and the repositories a caller passes.
RelsSet == { <<>>, <<S_rel>> }
Repos == { <<"d">>, <<"X">> }

\* MyResolver::find of the tests: one user, the repository, served under
\* the acct prefix only.
MyResolver_find(prefix, acct, rels, resource_repo) ==
    IF acct = resource_repo /\ prefix = Acct
    THEN Ok([subject |-> acct,
             aliases |-> <<acct>>,
             links |-> <<[rel |-> S_profile_page,
                          mime_type |-> None,
                          href |-> Some(S_instance_url \o acct \o <<"/">>),
                          template |-> None]>>])
    ELSE Err(NotFound)

\* Resolver::find is the implementor's: what it may return for a call is
\* what MyResolver returns, any error, or a descriptor of its own.
find(prefix, acct, rels, resource_repo) ==
    { MyResolver_find(prefix, acct, rels, resource_repo) }
        \cup { Err(e) : e \in ResolverError }
        \cup { Ok([subject |-> <<>>, aliases |-> <<>>, links |-> <<>>]) }

\* One invocation of find, as the endpoint made it, and what it returned.
FindCall(prefix, acct, rels, resource_repo, returned) ==
    [prefix |-> prefix, acct |-> acct, rels |-> rels,
     resource_repo |-> resource_repo, returned |-> returned]

\* resource.splitn(2, ':')
endpoint_parsed_query(resource) == splitn2(resource, ":")

\* Prefix::from(parsed_query.next().ok_or(InvalidResource)?)
endpoint_res_prefix(parsed_query) ==
    LET token == ok_or(nth(parsed_query, 0), InvalidResource)
    IN  IF IsErr(token) THEN token ELSE Ok(Prefix_from(token.val))

\* endpoint_res that takes the whole resource when there is no ':'.
endpoint_res_or_whole(parsed_query) ==
    Ok(IF Len(parsed_query) >= 2 THEN parsed_query[2] ELSE parsed_query[1])

\* parsed_query.next().ok_or(InvalidResource)?
endpoint_res(parsed_query) == ok_or(nth(parsed_query, 1), InvalidResource)

\* endpoint_parsed_res that splits at the last '@' (rsplitn).
endpoint_parsed_res_last(res) ==
    IF ~contains(res, "@") THEN <<res>>
    ELSE LET i == CHOOSE k \in 1..Len(res) :
                      res[k] = "@" /\ \A j \in (k + 1)..Len(res) : res[j] # "@"
         IN  <<SubSeq(res, 1, i - 1), SubSeq(res, i + 1, Len(res))>>

\* res.splitn(2, '@')
endpoint_parsed_res(res) == splitn2(res, "@")

\* parsed_res.next().ok_or(InvalidResource)?, the first time
endpoint_user(parsed_res) == ok_or(nth(parsed_res, 0), InvalidResource)

\* parsed_res.next().ok_or(InvalidResource)?, the second time
endpoint_domain(parsed_res) == ok_or(nth(parsed_res, 1), InvalidResource)

\* endpoint_domain_matches that ignores case.
endpoint_domain_matches_nocase(self, domain) ==
    to_lowercase(domain) = to_lowercase(self.instance_domain)

\* domain == self.instance_domain()
endpoint_domain_matches(self, domain) == domain = self.instance_domain

\* self.find(res_prefix, user, rels, resource_repo), as the last expression
\* of the endpoint: every outcome of the call.
endpoint_find(res_prefix, user, rels, resource_repo) ==
    { [ret |-> r, finds |-> <<FindCall(res_prefix, user, rels, resource_repo, r)>>] :
        r \in find(res_prefix, user, rels, resource_repo) }

\* Resolver::endpoint of resolver.rs: every outcome of one call, as the
\* result returned and the invocations of find made.
Resolver_endpoint(self, resource, rels, resource_repo) ==
    LET parsed_query == endpoint_parsed_query(resource)
        res_prefix == endpoint_res_prefix(parsed_query)
        res == endpoint_res(parsed_query)
    IN  IF IsErr(res_prefix) THEN { [ret |-> res_prefix, finds |-> <<>>] }
        ELSE IF IsErr(res) THEN { [ret |-> res, finds |-> <<>>] }
        ELSE
            LET parsed_res == endpoint_parsed_res(res.val)
                user == endpoint_user(parsed_res)
                domain == endpoint_domain(parsed_res)
            IN  IF IsErr(user) THEN { [ret |-> user, finds |-> <<>>] }
                ELSE IF IsErr(domain) THEN { [ret |-> domain, finds |-> <<>>] }
                ELSE IF endpoint_domain_matches(self, domain.val)
                THEN endpoint_find(res_prefix.val, user.val, rels, resource_repo)
                ELSE { [ret |-> Err(WrongDomain), finds |-> <<>>] }

\* The older Resolver::find kept in lib.rs takes the identifier and the
\* repository only; it is the implementor's too.
lib_find(acct, resource_repo) ==
    { Err(e) : e \in {InvalidResource, WrongInstance, NotFound} }
        \cup { Ok([subject |-> acct, aliases |-> <<>>, links |-> <<>>]) }

\* Resolver::endpoint of lib.rs: every outcome of one call.
lib_Resolver_endpoint(instance_domain, resource, resource_repo) ==
    LET parsed_query == splitn2(resource, ":")
        res_type == ok_or(nth(parsed_query, 0), InvalidResource)
        res == IF IsErr(res_type) THEN res_type
               ELSE IF res_type.val = S_acct
                    THEN ok_or(nth(parsed_query, 1), InvalidResource)
                    ELSE Err(InvalidResource)
    IN  IF IsErr(res) THEN { [ret |-> res, finds |-> <<>>] }
        ELSE
            LET parsed_res == split(res.val, "@")
                user == ok_or(nth(parsed_res, 0), InvalidResource)
                res_domain == ok_or(nth(parsed_res, 1), InvalidResource)
            IN  IF IsErr(user) THEN { [ret |-> user, finds |-> <<>>] }
                ELSE IF IsErr(res_domain) THEN { [ret |-> res_domain, finds |-> <<>>] }
                ELSE IF res_domain.val = instance_domain
                THEN { [ret |-> r,
                        finds |-> <<[acct |-> user.val, resource_repo |-> resource_repo,
                                     returned |-> r]>>] :
                       r \in lib_find(user.val, resource_repo) }
                ELSE { [ret |-> Err(WrongInstance), finds |-> <<>>] }

--------------------------------------------------------------------------
\* Fetching

\* Every prefix: Custom holds any text.
AllPrefixes == {Acct, Group} \cup { Custom(s) : s \in Texts \cup {S_group, <<"x">>} }

\* The prefixes a caller fetches with.
Prefixes == {Acct, Group, Custom(<<"X">>)}

\* url_for that takes the whole account as the host when it has no '@'.
url_for_lenient(prefix, acct, with_https) ==
    LET scheme == IF with_https THEN S_https ELSE S_http
        instance == nth(split(acct, "@"), 1)
    IN  Ok(scheme \o S_scheme_sep \o (IF instance.tag = "Some" THEN instance.val ELSE acct)
               \o S_well_known \o Prefix_into(prefix) \o <<":">> \o acct)

\* url_for of fetch.rs
url_for(prefix, acct, with_https) ==
    LET scheme == IF with_https THEN S_https ELSE S_http
        prefix_text == Prefix_into(prefix)
        instance == ok_or(nth(split(acct, "@"), 1), ParseError)
    IN  IF IsErr(instance) THEN instance
        ELSE Ok(scheme \o S_scheme_sep \o instance.val \o S_well_known
                    \o prefix_text \o <<":">> \o acct)

\* url_for_acct of lib.rs
url_for_acct(acct, with_https) ==
    LET scheme == IF with_https THEN S_https ELSE S_http
        instance == ok_or(nth(split(acct, "@"), 1), ParseError)
    IN  IF IsErr(instance) THEN instance
        ELSE Ok(scheme \o S_scheme_sep \o instance.val \o S_well_known
                    \o S_acct \o <<":">> \o acct)

\* resolve that looks for '@' in the whole identifier.
resolve_any_at(acct) ==
    LET parsed == splitn2(acct, ":")
    IN  IF contains(acct, "@") THEN Ok([prefix |-> Acct, acct |-> acct])
        ELSE IF Len(parsed) = 2
        THEN Ok([prefix |-> Prefix_from(parsed[1]), acct |-> parsed[2]])
        ELSE Ok([prefix |-> Acct, acct |-> parsed[1]])

\* resolve of fetch.rs, up to its call of resolve_with_prefix: the prefix
\* and the account it passes on.
resolve(acct) ==
    LET parsed == splitn2(acct, ":")
        first == ok_or(nth(parsed, 0), ParseError)
        other == nth(parsed, 1)
    IN  IF IsErr(first) THEN first
        ELSE IF contains(first.val, "@")
        THEN Ok([prefix |-> Acct, acct |-> acct])
        ELSE IF other.tag = "Some"
        THEN Ok([prefix |-> Prefix_from(first.val), acct |-> other.val])
        ELSE Ok([prefix |-> Acct, acct |-> first.val])

--------------------------------------------------------------------------
\* JSON and the serde shapes of lib.rs

JNull == [t |-> "null"]
JStr(s) == [t |-> "string", v |-> s]
JArr(xs) == [t |-> "array", v |-> xs]
JObj(f) == [t |-> "object", v |-> f]
\* a body that is no JSON at all
JInvalid == [t |-> "invalid"]
\* a key an object does not hold
Absent == [t |-> "absent"]

\* The object that holds, of the keys of choice, those not Absent.
Object(choice) ==
    JObj([k \in { k \in DOMAIN choice : choice[k] # Absent } |-> choice[k]])

HasKey(j, k) == j.t = "object" /\ k \in DOMAIN j.v

\* What a struct's visitor finds under key k: the value, or Absent.
field(j, k) == IF HasKey(j, k) THEN j.v[k] ELSE Absent

\* A field of type String: a missing key is an error, and so is any value
\* that is no string.
de_String(j) == IF j.t = "string" THEN Ok(j.v) ELSE Err(JsonError)

\* A field of type Option<String>: a missing key is None, and so is null.
de_Option_String(j) ==
    IF j.t \in {"null", "absent"} THEN Ok(None)
    ELSE IF j.t = "string" THEN Ok(Some(j.v))
    ELSE Err(JsonError)

\* #[derive(Deserialize)] struct Link of lib.rs, from a JSON object; keys
\* that name no field are ignored.
Deserialize_Link(j) ==
    IF j.t # "object" THEN Err(JsonError)
    ELSE
        LET rel == de_String(field(j, "rel"))
            href == de_String(field(j, "href"))
            mime_type == de_Option_String(field(j, "type"))
        IN  IF IsErr(rel) \/ IsErr(href) \/ IsErr(mime_type) THEN Err(JsonError)
            ELSE Ok([rel |-> rel.val, href |-> href.val, mime_type |-> mime_type.val])

\* #[derive(Serialize)] struct Link of lib.rs: every field is written,
\* mime_type under the key "type", None as null.
Serialize_Link(l) ==
    JObj([rel |-> JStr(l.rel),
          href |-> JStr(l.href),
          type |-> IF l.mime_type = None THEN JNull ELSE JStr(l.mime_type.val)])

\* A field of type Vec<String>: a missing key is an error.
de_Vec_String(j) ==
    IF j.t # "array" THEN Err(JsonError)
    ELSE IF \E i \in 1..Len(j.v) : IsErr(de_String(j.v[i])) THEN Err(JsonError)
    ELSE Ok([i \in 1..Len(j.v) |-> de_String(j.v[i]).val])

\* A field of type Vec<Link>: a missing key is an error.
de_Vec_Link(j) ==
    IF j.t # "array" THEN Err(JsonError)
    ELSE IF \E i \in 1..Len(j.v) : IsErr(Deserialize_Link(j.v[i])) THEN Err(JsonError)
    ELSE Ok([i \in 1..Len(j.v) |-> Deserialize_Link(j.v[i]).val])

\* #[derive(Deserialize)] struct Webfinger of lib.rs, from a JSON object
Deserialize_Webfinger(j) ==
    IF j.t # "object" THEN Err(JsonError)
    ELSE
        LET subject == de_String(field(j, "subject"))
            aliases == de_Vec_String(field(j, "aliases"))
            links == de_Vec_Link(field(j, "links"))
        IN  IF IsErr(subject) \/ IsErr(aliases) \/ IsErr(links) THEN Err(JsonError)
            ELSE Ok([subject |-> subject.val, aliases |-> aliases.val, links |-> links.val])

\* The JSON objects a peer may send for a link: each key absent, null or a
\* string.
LinkObjects ==
    { Object(c) : c \in [{"rel", "href", "template", "type"} ->
                            {Absent, JNull, JStr(<<"d">>)}] }

\* The Link values of lib.rs
Links ==
    [rel : {<<"d">>}, href : {<<"d">>, <<>>}, mime_type : {None, Some(<<"d">>)}]

\* The JSON documents a peer may send for a descriptor.
WebfingerObjects ==
    { Object([subject |-> s, aliases |-> a, links |-> l]) :
        s \in {Absent, JNull, JStr(<<"d">>)},
        a \in {Absent, JNull, JArr(<<>>), JArr(<<JStr(<<"d">>)>>)},
        l \in {Absent, JArr(<<>>)} \cup { JArr(<<o>>) : o \in LinkObjects } }

--------------------------------------------------------------------------
\* The asynchronous resolver

\* MyAsyncResolver::find of the tests
MyAsyncResolver_find(prefix, acct, resource_repo) ==
    IF acct = resource_repo /\ prefix = Acct
    THEN Ok([subject |-> acct,
             aliases |-> <<acct>>,
             links |-> <<[rel |-> S_profile_page,
                          mime_type |-> None,
                          href |-> Some(S_instance_url \o acct \o <<"/">>),
                          template |-> None]>>])
    ELSE Err(NotFound)

\* AsyncResolver::find is the implementor's: what its future may resolve to.
async_find(prefix, acct, resource_repo) ==
    { MyAsyncResolver_find(prefix, acct, resource_repo) }
        \cup { Err(e) : e \in ResolverError }
        \cup { Ok([subject |-> <<>>, aliases |-> <<>>, links |-> <<>>]) }

\* The statements of AsyncResolver::endpoint before its first await, with a
\* resource that has no ':' taken whole as the text after the prefix.
async_endpoint_parse_or_whole(resource) ==
    LET parsed_query == splitn2(resource, ":")
        res == IF Len(parsed_query) >= 2 THEN parsed_query[2] ELSE parsed_query[1]
        parsed_res == splitn2(res, "@")
    IN  IF Len(parsed_res) < 2 THEN Err(InvalidResource)
        ELSE Ok([res_prefix |-> Prefix_from(parsed_query[1]),
                 user |-> parsed_res[1], domain |-> parsed_res[2]])

\* The statements of AsyncResolver::endpoint before its first await: the
\* locals that live across it, or the error one of the four ? returns.
async_endpoint_parse(resource) ==
    LET parsed_query == splitn2(resource, ":")
        token == ok_or(nth(parsed_query, 0), InvalidResource)
        res == ok_or(nth(parsed_query, 1), InvalidResource)
    IN  IF IsErr(token) THEN token
        ELSE IF IsErr(res) THEN res
        ELSE
            LET parsed_res == splitn2(res.val, "@")
                user == ok_or(nth(parsed_res, 0), InvalidResource)
                domain == ok_or(nth(parsed_res, 1), InvalidResource)
            IN  IF IsErr(user) THEN user
                ELSE IF IsErr(domain) THEN domain
                ELSE Ok([res_prefix |-> Prefix_from(token.val),
                         user |-> user.val, domain |-> domain.val])

\* async_domain_matches that ignores case.
async_domain_matches_nocase(self, domain) ==
    to_lowercase(domain) = to_lowercase(self.instance_domain)

\* domain == self.instance_domain().await, once the future has resolved
async_domain_matches(self, domain) == domain = self.instance_domain

\* An await that has just been reached.
Await(point) == [at |-> point, suspended |-> FALSE]

--------------------------------------------------------------------------
\* State

VARIABLES
    pc,         \* where the call is: "idle" before it, "send" and "json" at
                \* the two awaits of resolve_with_prefix, "instance_domain"
                \* and "find" at those of AsyncResolver::endpoint, "done"
                \* after it
    op,         \* the operation called
    arg,        \* its arguments
    ret,        \* its result, once done
    finds,      \* the invocations of find made by the call
    fetched,    \* the invocations of resolve_with_prefix made by the call
    requests,   \* the HTTP requests issued by the call
    body,       \* the body of the response received, while it is decoded
    awaits      \* the awaits AsyncResolver::endpoint has reached, in order,
                \* each with whether the call was suspended there

vars == <<pc, op, arg, ret, finds, fetched, requests, body, awaits>>

Init ==
    /\ pc = "idle"
    /\ op = "none"
    /\ arg = <<>>
    /\ ret = None
    /\ finds = <<>>
    /\ fetched = <<>>
    /\ requests = <<>>
    /\ body = Absent
    /\ awaits = <<>>

\* A call that returns at once.
Return(name, a, r, fs) ==
    /\ pc' = "done"
    /\ op' = name
    /\ arg' = a
    /\ ret' = r
    /\ finds' = fs
    /\ UNCHANGED <<awaits, fetched, requests, body>>

\* resolver.endpoint(resource, rels, resource_repo) of resolver.rs
Endpoint ==
    /\ pc = "idle"
    /\ \E d \in Domains, resource \in Texts, rels \in RelsSet, repo \in Repos :
        \E out \in Resolver_endpoint([instance_domain |-> d], resource, rels, repo) :
            Return("Resolver::endpoint",
                   [self |-> [instance_domain |-> d], resource |-> resource,
                    rels |-> rels, resource_repo |-> repo],
                   out.ret, out.finds)

\* Resolver::endpoint(resource, resource_repo) of lib.rs
LibEndpoint ==
    /\ pc = "idle"
    /\ \E d \in Domains, resource \in Texts, repo \in Repos :
        \E out \in lib_Resolver_endpoint(d, resource, repo) :
            Return("lib::Resolver::endpoint",
                   [instance_domain |-> d, resource |-> resource, resource_repo |-> repo],
                   out.ret, out.finds)

\* url_for(prefix, acct, with_https)
UrlFor ==
    /\ pc = "idle"
    /\ \E prefix \in Prefixes, acct \in Texts, with_https \in BOOLEAN :
        Return("url_for",
               [prefix |-> prefix, acct |-> acct, with_https |-> with_https],
               url_for(prefix, acct, with_https), <<>>)

\* url_for_acct(acct, with_https)
UrlForAcct ==
    /\ pc = "idle"
    /\ \E acct \in Texts, with_https \in BOOLEAN :
        Return("url_for_acct", [acct |-> acct, with_https |-> with_https],
               url_for_acct(acct, with_https), <<>>)

\* resolve_with_prefix up to its first await: the URL is computed, and the
\* request is issued unless that failed.
resolve_with_prefix(prefix, acct, with_https) ==
    LET url == url_for(prefix, acct, with_https)
    IN  /\ fetched' = <<[prefix |-> prefix, acct |-> acct, with_https |-> with_https]>>
        /\ finds' = <<>>
        /\ body' = Absent
        /\ awaits' = <<>>
        /\ IF IsErr(url)
           THEN /\ pc' = "done"
                /\ ret' = url
                /\ requests' = <<>>
           ELSE /\ pc' = "send"
                /\ ret' = None
                /\ requests' = <<[url |-> url.val, accept |-> S_accept]>>

\* resolve_with_prefix(prefix, acct, with_https), called by the user
ResolveWithPrefix ==
    /\ pc = "idle"
    /\ \E prefix \in Prefixes, acct \in Texts, with_https \in BOOLEAN :
        /\ op' = "resolve_with_prefix"
        /\ arg' = [prefix |-> prefix, acct |-> acct, with_https |-> with_https]
        /\ resolve_with_prefix(prefix, acct, with_https)

\* resolve(acct, with_https)
Resolve ==
    /\ pc = "idle"
    /\ \E acct \in Texts, with_https \in BOOLEAN :
        /\ op' = "resolve"
        /\ arg' = [acct |-> acct, with_https |-> with_https]
        /\ LET chosen == resolve(acct)
           IN  IF IsErr(chosen)
               THEN /\ pc' = "done"
                    /\ ret' = chosen
                    /\ UNCHANGED <<awaits, finds, fetched, requests, body>>
               ELSE resolve_with_prefix(chosen.val.prefix, chosen.val.acct, with_https)

\* The bodies a server may answer a request with.
Bodies ==
    { JInvalid,
      Object([subject |-> JStr(<<"d">>), aliases |-> JArr(<<>>), links |-> JArr(<<>>)]),
      Object([subject |-> JStr(<<"d">>), aliases |-> Absent, links |-> JArr(<<>>)]) }

\* send().await fails: the call ends with HttpError.
SendFails ==
    /\ pc = "send"
    /\ pc' = "done"
    /\ ret' = Err(HttpError)
    /\ UNCHANGED <<awaits, op, arg, finds, fetched, requests, body>>

\* send().await yields a response.
SendDone ==
    /\ pc = "send"
    /\ \E b \in Bodies :
        /\ pc' = "json"
        /\ body' = b
        /\ UNCHANGED <<awaits, op, arg, ret, finds, fetched, requests>>

\* json().await: the body is decoded into a Webfinger, or the call ends
\* with JsonError.
JsonDone ==
    /\ pc = "json"
    /\ pc' = "done"
    /\ ret' = Deserialize_Webfinger(body)
    /\ UNCHANGED <<awaits, op, arg, finds, fetched, requests, body>>

\* serde_json::from_str::<Webfinger>(json)
FromStrWebfinger ==
    /\ pc = "idle"
    /\ \E j \in WebfingerObjects \cup {JInvalid} :
        Return("from_str::<Webfinger>", [json |-> j], Deserialize_Webfinger(j), <<>>)

\* serde_json::from_value::<Link>(json)
FromLink ==
    /\ pc = "idle"
    /\ \E j \in LinkObjects :
        Return("from_value::<Link>", [json |-> j], Deserialize_Link(j), <<>>)

\* serde_json::to_value(link)
ToLink ==
    /\ pc = "idle"
    /\ \E l \in Links :
        Return("to_value::<Link>", [link |-> l], Ok(Serialize_Link(l)), <<>>)

\* prefix.into(): String
PrefixInto ==
    /\ pc = "idle"
    /\ \E p \in AllPrefixes :
        Return("Prefix::into", [prefix |-> p], Prefix_into(p), <<>>)

\* resolver.endpoint(resource, resource_repo) of async_resolver.rs, up to
\* its first await: the resource is parsed, and the future of
\* instance_domain() is awaited unless that failed.
AsyncEndpoint ==
    /\ pc = "idle"
    /\ \E d \in Domains, resource \in Texts, repo \in Repos :
        LET parsed == async_endpoint_parse(resource)
        IN  /\ op' = "AsyncResolver::endpoint"
            /\ arg' = [self |-> [instance_domain |-> d], resource |-> resource,
                       resource_repo |-> repo]
            /\ finds' = <<>>
            /\ UNCHANGED <<fetched, requests, body>>
            /\ IF IsErr(parsed)
               THEN /\ pc' = "done"
                    /\ ret' = parsed
                    /\ awaits' = <<>>
               ELSE /\ pc' = "instance_domain"
                    /\ ret' = None
                    /\ awaits' = <<Await("instance_domain")>>

\* The future awaited is not ready: the call is suspended where it is.  (A
\* future that is not ready when polled again keeps the call there.)
Suspend ==
    /\ pc \in {"instance_domain", "find"}
    /\ ~awaits[Len(awaits)].suspended
    /\ awaits' = [awaits EXCEPT ![Len(awaits)].suspended = TRUE]
    /\ UNCHANGED <<pc, op, arg, ret, finds, fetched, requests, body>>

\* instance_domain().await resolves: the domain is compared, and find is
\* invoked and awaited on a match.
DomainReady ==
    /\ pc = "instance_domain"
    /\ LET parsed == async_endpoint_parse(arg.resource).val
       IN  IF async_domain_matches(arg.self, parsed.domain)
           THEN /\ pc' = "find"
                /\ finds' = <<[prefix |-> parsed.res_prefix, acct |-> parsed.user,
                               resource_repo |-> arg.resource_repo, returned |-> None]>>
                /\ awaits' = Append(awaits, Await("find"))
                /\ UNCHANGED ret
           ELSE /\ pc' = "done"
                /\ ret' = Err(WrongDomain)
                /\ UNCHANGED <<finds, awaits>>
    /\ UNCHANGED <<op, arg, fetched, requests, body>>

\* find(...).await resolves: what it resolves to is the result of the call.
FindReady ==
    /\ pc = "find"
    /\ \E r \in async_find(finds[1].prefix, finds[1].acct, finds[1].resource_repo) :
        /\ pc' = "done"
        /\ ret' = r
        /\ finds' = [finds EXCEPT ![1].returned = r]
    /\ UNCHANGED <<op, arg, fetched, requests, body, awaits>>

Next ==
    \/ Endpoint
    \/ LibEndpoint
    \/ UrlFor
    \/ UrlForAcct
    \/ ResolveWithPrefix
    \/ Resolve
    \/ SendFails
    \/ SendDone
    \/ JsonDone
    \/ FromStrWebfinger
    \/ ToLink
    \/ FromLink
    \/ PrefixInto
    \/ AsyncEndpoint
    \/ Suspend
    \/ DomainReady
    \/ FindReady

Spec == Init /\ [][Next]_vars

--------------------------------------------------------------------------
\* What the properties speak of, stated on the text itself

HasChar(s, c) == c \in { s[i] : i \in 1..Len(s) }

\* The position of the first c of a text that has one.
FirstAt(s, c) ==
    CHOOSE i \in 1..Len(s) : s[i] = c /\ c \notin { s[j] : j \in 1..(i - 1) }

BeforeFirst(s, c) == SubSeq(s, 1, FirstAt(s, c) - 1)
AfterFirst(s, c) == SubSeq(s, FirstAt(s, c) + 1, Len(s))

\* <prefix>:<user>@<domain>: a ':' and, after the first one, an '@'
WellFormed(r) == HasChar(r, ":") /\ HasChar(AfterFirst(r, ":"), "@")
PrefixToken(r) == BeforeFirst(r, ":")
UserPart(r) == BeforeFirst(AfterFirst(r, ":"), "@")
ClaimedDomain(r) == AfterFirst(AfterFirst(r, ":"), "@")

--------------------------------------------------------------------------
\* Properties

\* C1: the endpoint of resolver.rs fails with InvalidResource, and never
\* invokes find, for every resource that has no ':' and for every resource
\* whose text after the first ':' has no '@', whatever the instance domain.
C1_InvalidResource ==
    op = "Resolver::endpoint" /\ ~WellFormed(arg.resource)
        => ret = Err(InvalidResource) /\ finds = <<>>

\* C1 happens: "d@d" asked of the instance d is refused as InvalidResource.
C1_Witness ==
    /\ op = "Resolver::endpoint"
    /\ arg.resource = <<"d", "@", "d">>
    /\ arg.self.instance_domain = <<"d">>
    /\ ret = Err(InvalidResource)

\* C2: a well-formed resource whose domain, everything after the first '@'
\* that follows the first ':', is not exactly the instance domain ends in
\* WrongDomain, and find is never invoked.
C2_WrongDomain ==
    /\ op = "Resolver::endpoint"
    /\ WellFormed(arg.resource)
    /\ ClaimedDomain(arg.resource) # arg.self.instance_domain
    => ret = Err(WrongDomain) /\ finds = <<>>

\* C2 happens: the domain d asked of the instance D, which differs by case
\* only, is refused.
C2_Witness ==
    /\ op = "Resolver::endpoint"
    /\ arg.resource = S_acct \o <<":", "d", "@", "d">>
    /\ arg.self.instance_domain = <<"D">>
    /\ ret = Err(WrongDomain)

\* C3: when the domain is the instance domain, find is invoked exactly once,
\* with the normalized prefix, the text between the first ':' and the first
\* '@' after it, the rels and the repository of the call, and what it
\* returns is the result of the endpoint.
C3_FindOnce ==
    /\ op = "Resolver::endpoint"
    /\ WellFormed(arg.resource)
    /\ ClaimedDomain(arg.resource) = arg.self.instance_domain
    => /\ Len(finds) = 1
       /\ finds[1].prefix = Prefix_from(PrefixToken(arg.resource))
       /\ finds[1].acct = UserPart(arg.resource)
       /\ finds[1].rels = arg.rels
       /\ finds[1].resource_repo = arg.resource_repo
       /\ ret = finds[1].returned

\* C3 happens: a resource whose domain holds a second '@' reaches find on
\* the instance of that name, and find's NotFound is the result.
C3_Witness ==
    /\ op = "Resolver::endpoint"
    /\ arg.self.instance_domain = <<"d", "@", "d">>
    /\ arg.rels = <<S_rel>>
    /\ Len(finds) = 1
    /\ ret = Err(NotFound)

\* The instance domain of a call of either endpoint.
CallDomain ==
    IF op = "Resolver::endpoint" THEN arg.self.instance_domain ELSE arg.instance_domain

\* C4: no endpoint rejects a resource for its prefix token: whatever stands
\* before the first ':', a resource <token>:<user>@<instance domain> reaches
\* find (with the prefix Acct, Group or Custom of the lower-cased token,
\* where find takes one), and the result is what find returned.
C4_NeverRejectsPrefix ==
    /\ op \in {"Resolver::endpoint", "lib::Resolver::endpoint"}
    /\ WellFormed(arg.resource)
    /\ ClaimedDomain(arg.resource) = CallDomain
    => /\ Len(finds) = 1
       /\ ret = finds[1].returned
       /\ op = "Resolver::endpoint"
            => finds[1].prefix = Prefix_from(PrefixToken(arg.resource))

\* The URL the fetch side is to build for an account that has an '@'.
ExpectedUrl(prefix_text, acct, with_https) ==
    (IF with_https THEN S_https ELSE S_http) \o S_scheme_sep
        \o AfterFirst(acct, "@") \o S_well_known \o prefix_text \o <<":">> \o acct

\* The canonical text of a prefix.
TextOf(p) ==
    CASE p.kind = "Acct" -> S_acct
      [] p.kind = "Group" -> S_group
      [] OTHER -> p.text

\* C5: for an account that has an '@', url_for (and url_for_acct, for the
\* acct prefix) returns <scheme>://<domain>/.well-known/webfinger?resource=
\* <prefix>:<acct>, the domain being all of the account after its first '@'.
C5_UrlFor ==
    /\ op = "url_for" /\ HasChar(arg.acct, "@")
        => ret = Ok(ExpectedUrl(TextOf(arg.prefix), arg.acct, arg.with_https))
    /\ op = "url_for_acct" /\ HasChar(arg.acct, "@")
        => ret = Ok(ExpectedUrl(S_acct, arg.acct, arg.with_https))

\* C6: for an account that has no '@', url_for returns ParseError, and
\* resolve_with_prefix ends with ParseError without a request; a fetch that
\* ended with ParseError never issued a request.
C6_ParseErrorBeforeRequest ==
    /\ op = "url_for" /\ ~HasChar(arg.acct, "@") => ret = Err(ParseError)
    /\ op = "resolve_with_prefix" /\ ~HasChar(arg.acct, "@")
        => pc = "done" /\ ret = Err(ParseError) /\ requests = <<>>
    /\ op \in {"resolve_with_prefix", "resolve"} /\ ret = Err(ParseError)
        => requests = <<>>

\* C6 happens: resolve_with_prefix of the account "d" ended with ParseError.
C6_Witness ==
    /\ op = "resolve_with_prefix"
    /\ arg.acct = <<"d">>
    /\ pc = "done"
    /\ ret = Err(ParseError)

\* resolve fetched with this prefix and this account, once.
Fetched(prefix, acct) ==
    fetched = <<[prefix |-> prefix, acct |-> acct, with_https |-> arg.with_https]>>

\* C7 as claimed: an identifier that has an '@' anywhere is fetched as Acct,
\* whole; otherwise one that has a ':' is fetched with the segment before
\* the first ':' as prefix and the rest as account; otherwise it is fetched
\* as Acct, whole, and fails with ParseError.
C7_AsClaimed ==
    op = "resolve" =>
        IF HasChar(arg.acct, "@") THEN Fetched(Acct, arg.acct)
        ELSE IF HasChar(arg.acct, ":")
        THEN Fetched(Prefix_from(BeforeFirst(arg.acct, ":")), AfterFirst(arg.acct, ":"))
        ELSE Fetched(Acct, arg.acct) /\ ret = Err(ParseError)

\* The segment before the first ':', the whole text when there is none.
FirstSegment(s) == IF HasChar(s, ":") THEN BeforeFirst(s, ":") ELSE s

\* C7, amended: it is the segment before the first ':' that is searched for
\* an '@'; an identifier whose '@' comes after its first ':' is fetched with
\* that segment as prefix and the rest as account.
C7_Resolve ==
    op = "resolve" =>
        IF HasChar(FirstSegment(arg.acct), "@") THEN Fetched(Acct, arg.acct)
        ELSE IF HasChar(arg.acct, ":")
        THEN Fetched(Prefix_from(BeforeFirst(arg.acct, ":")), AfterFirst(arg.acct, ":"))
        ELSE Fetched(Acct, arg.acct) /\ ret = Err(ParseError)

\* C7 happens: "acct:d@d" is fetched as Acct with the account "d@d".
C7_Witness ==
    /\ op = "resolve"
    /\ arg.acct = S_acct \o <<":", "d", "@", "d">>
    /\ Len(fetched) = 1
    /\ fetched[1].prefix = Acct
    /\ fetched[1].acct = <<"d", "@", "d">>

\* A prefix with the text of Custom lower-cased.
LowerCased(p) == IF p.kind = "Custom" THEN Custom(to_lowercase(p.text)) ELSE p

\* The lower-cased text of a Custom prefix is the name of a known prefix.
Shadowed(p) == p.kind = "Custom" /\ to_lowercase(p.text) \in {S_acct, S_group}

\* C8 as claimed: the text of every prefix parses back to the prefix, up to
\* lower-casing of the Custom text; the text of Acct is "acct" and that of
\* Group is "group".
C8_AsClaimed ==
    op = "Prefix::into" =>
        /\ Prefix_from(ret) = LowerCased(arg.prefix)
        /\ arg.prefix = Acct => ret = S_acct
        /\ arg.prefix = Group => ret = S_group

\* C8, amended: the round trip holds for Acct, for Group and for every
\* Custom whose lower-cased text is neither "acct" nor "group"; the text of
\* a Custom whose lower-cased text is one of these parses to Acct or Group.
C8_RoundTrip ==
    op = "Prefix::into" =>
        /\ ~Shadowed(arg.prefix) => Prefix_from(ret) = LowerCased(arg.prefix)
        /\ Shadowed(arg.prefix) => Prefix_from(ret) \in {Acct, Group}
        /\ arg.prefix = Acct => ret = S_acct
        /\ arg.prefix = Group => ret = S_group

\* C8 happens: the text of Custom("X") parses back to Custom("x").
C8_Witness ==
    /\ op = "Prefix::into"
    /\ arg.prefix = Custom(<<"X">>)
    /\ Prefix_from(ret) = Custom(<<"x">>)

\* A JSON object for a link that a descriptor may hold: rel is a string,
\* and href, template and type are strings where present.
LinkShaped(o) ==
    /\ HasKey(o, "rel") /\ o.v["rel"].t = "string"
    /\ \A k \in {"href", "template", "type"} : HasKey(o, k) => o.v[k].t = "string"

\* C9: a JRD object that has a subject and links and no aliases key
\* deserializes to a Webfinger whose aliases are empty.
C9_NoAliases ==
    /\ op = "from_str::<Webfinger>"
    /\ HasKey(arg.json, "subject") /\ arg.json.v["subject"].t = "string"
    /\ HasKey(arg.json, "links") /\ arg.json.v["links"].t = "array"
    /\ \A i \in 1..Len(arg.json.v["links"].v) : LinkShaped(arg.json.v["links"].v[i])
    /\ ~HasKey(arg.json, "aliases")
    => IsOk(ret) /\ ret.val.aliases = <<>>

\* The optional field of a Link value holds a value.  In the Link of lib.rs
\* href is a String, always there, and there is no template.
Present(l, f) ==
    CASE f = "mime_type" -> l.mime_type # None
      [] OTHER -> f \in DOMAIN l

\* The keys of a link and the fields they are written from.
OptionalKeys == { <<"href", "href">>, <<"template", "template">>, <<"type", "mime_type">> }

\* C10: a serialized Link holds the key href, template or type exactly when
\* the field is present, never as null; a key absent on input deserializes
\* to an absent field.
C10_OptionalFields ==
    /\ op = "to_value::<Link>" =>
        \A kf \in OptionalKeys :
            /\ HasKey(ret.val, kf[1]) <=> Present(arg.link, kf[2])
            /\ HasKey(ret.val, kf[1]) => ret.val.v[kf[1]] # JNull
    /\ op = "from_value::<Link>" /\ LinkShaped(arg.json) =>
        /\ IsOk(ret)
        /\ \A kf \in OptionalKeys :
            ~HasKey(arg.json, kf[1]) => ~Present(ret.val, kf[2])

\* The awaits the call has reached, in order, and those it was suspended at.
AwaitPoints == [i \in 1..Len(awaits) |-> awaits[i].at]
SuspendedAt == { awaits[i].at : i \in { k \in 1..Len(awaits) : awaits[k].suspended } }

\* C11 as claimed: AsyncResolver::endpoint is suspended at no await but that
\* of find, and a call that fails with InvalidResource or WrongDomain was
\* never suspended.
C11_AsClaimed ==
    op = "AsyncResolver::endpoint" =>
        /\ SuspendedAt \subseteq {"find"}
        /\ pc = "done" /\ ret \in {Err(InvalidResource), Err(WrongDomain)}
            => SuspendedAt = {}

\* C11, amended: AsyncResolver::endpoint has two awaits, that of
\* instance_domain() and then that of find.  A resource that is not
\* well-formed ends in InvalidResource before any await; a well-formed one
\* of another domain ends in WrongDomain after the await of
\* instance_domain() alone, find not invoked; find is invoked, once, exactly
\* when its await is reached.
C11_Awaits ==
    op = "AsyncResolver::endpoint" =>
        /\ AwaitPoints \in {<<>>, <<"instance_domain">>, <<"instance_domain", "find">>}
        /\ ~WellFormed(arg.resource)
            => pc = "done" /\ ret = Err(InvalidResource) /\ awaits = <<>>
        /\ WellFormed(arg.resource)
            => Len(awaits) >= 1
        /\ /\ pc = "done"
           /\ WellFormed(arg.resource)
           /\ ClaimedDomain(arg.resource) # arg.self.instance_domain
           => /\ ret = Err(WrongDomain)
              /\ AwaitPoints = <<"instance_domain">>
              /\ finds = <<>>
        /\ /\ pc = "done"
           /\ WellFormed(arg.resource)
           /\ ClaimedDomain(arg.resource) = arg.self.instance_domain
           => AwaitPoints = <<"instance_domain", "find">>
        /\ Len(finds) = (IF Len(awaits) = 2 THEN 1 ELSE 0)

\* C11 happens: a call that ended in WrongDomain was suspended at the await
\* of instance_domain().
C11_Witness ==
    /\ op = "AsyncResolver::endpoint"
    /\ pc = "done"
    /\ ret = Err(WrongDomain)
    /\ finds = <<>>
    /\ awaits = <<[at |-> "instance_domain", suspended |-> TRUE]>>

\* C12: Resolver::endpoint and AsyncResolver::endpoint are equivalent: on
\* the resource, instance domain and repository of a finished asynchronous
\* call, and whatever the rels, the synchronous endpoint invokes find as
\* often (not at all when it fails before), with the same prefix, user and
\* repository, returns the same error when find is not invoked, and returns
\* the same result when its find returns what the asynchronous one returned.
C12_Equivalent ==
    op = "AsyncResolver::endpoint" /\ pc = "done" =>
        \A rels \in RelsSet :
            \A out \in Resolver_endpoint(arg.self, arg.resource, rels, arg.resource_repo) :
                /\ Len(out.finds) = Len(finds)
                /\ Len(finds) = 0 => out.ret = ret
                /\ Len(finds) = 1 =>
                    /\ out.finds[1].prefix = finds[1].prefix
                    /\ out.finds[1].acct = finds[1].acct
                    /\ out.finds[1].resource_repo = finds[1].resource_repo
                    /\ out.finds[1].returned = finds[1].returned => out.ret = ret
                    /\ ret = finds[1].returned

\* C12 happens: an asynchronous call, suspended at both awaits, returned the
\* descriptor its find resolved to.
C12_Witness ==
    /\ op = "AsyncResolver::endpoint"
    /\ pc = "done"
    /\ IsOk(ret)
    /\ Len(finds) = 1
    /\ finds[1].prefix = Acct
    /\ SuspendedAt = {"instance_domain", "find"}

====
